---- MODULE Spec2Model ----
(***************************************************************************)
(* State-machine model of the mlx-vlm inference core:                      *)
(*   - MoEGate (models/deepseek_vl_v2/language.py), the expert gate with   *)
(*     its two selection policies;                                         *)
(*   - multimodal fusion (models/gemma3/gemma3.py), masked_scatter and     *)
(*     prepare_inputs_for_multimodal, and Model.__call__;                  *)
(*   - the decoder stack with its attention variants, rotary offsets and   *)
(*     the per-layer key/value cache.                                      *)
(* Tensors are modelled as functions over 0-based index ranges; floating   *)
(* point values are modelled in fixed point (scores are scaled by 1000).   *)
(***************************************************************************)
EXTENDS Integers, Sequences, FiniteSets, TLC

VARIABLES
    gate,       \* the MoEGate object (its fields after construction and weight loading)
    gateX,      \* argument x of the last MoEGate.__call__
    gateOut,    \* what the last MoEGate.__call__ returned or raised
    fusionCfg,  \* hidden_size, pad_token_id, image_token_index of the gemma3 Model
    fusionIn,   \* arguments of the last prepare_inputs_for_multimodal
    fusionOut,  \* what the last prepare_inputs_for_multimodal returned or raised
    lm,         \* configuration of the language model (decoder stack)
    cache,      \* the cache list shared by the forward calls (or "absent")
    call,       \* the forward call in progress
    hist,       \* what the completed forward calls did
    attention,  \* an attention module under construction and use (vision or grouped-query)
    moe,        \* a DeepseekV2MoE layer, its input and its output
    weights,    \* a checkpoint's weights dictionary and what sanitize made of it
    yarn,       \* a DeepseekV2YarnRotaryEmbedding and the arguments it was built from
    cli         \* a run of the generate command line: its arguments, position and prompts

gateVars == <<gate, gateX, gateOut>>
fusionVars == <<fusionCfg, fusionIn, fusionOut>>
modelVars == <<lm, cache, call, hist>>
otherVars == <<attention, moe, weights, yarn, cli>>
vars == <<gate, gateX, gateOut, fusionCfg, fusionIn, fusionOut, lm, cache, call, hist,
          attention, moe, weights, yarn, cli>>

\* Python's None, and an absent optional value; Some(v) is a present one.
None == <<>>

Some(v) == <<v>>

(***************************************************************************)
(* Bounds of the model.                                                    *)
(***************************************************************************)
MaxBatch == 2
MaxSeq == 2
MaxGroups == 2
MaxTopK == 3
ExpertsPerGroup == 2
MaxPositions == 4
MaxEmbedDim == 2
MaxFeatures == 3
MaxLayers == 2
MaxLen == 2
MaxCalls == 3
MaxDims == 6
MaxHeads == 3
MaxMoELayers == 3
MaxCkptLayers == 2
MaxExperts == 3
MaxRopeDim == 4
MaxChannels == 4
MaxKernel == 3

(***************************************************************************)
(* Small helpers on finite sets and functions.                             *)
(***************************************************************************)
Max2(a, b) == IF a >= b THEN a ELSE b

Min2(a, b) == IF a <= b THEN a ELSE b

MaxOf(S) == CHOOSE m \in S : \A y \in S : y <= m

RECURSIVE SumOver(_, _)
SumOver(f, S) ==
    IF S = {} THEN 0
    ELSE LET i == CHOOSE j \in S : TRUE IN f[i] + SumOver(f, S \ {i})

\* All functions f with domain T and f[t] \in C[t].
RECURSIVE ChoiceFns(_, _)
ChoiceFns(T, C) ==
    IF T = {} THEN {<<>>}
    ELSE LET t == CHOOSE u \in T : TRUE
         IN  {(t :> c) @@ f : c \in C[t], f \in ChoiceFns(T \ {t}, C)}

\* The elements of a finite set of integers as a sequence, ascending.
RECURSIVE Ascending(_)
Ascending(S) ==
    IF S = {} THEN <<>>
    ELSE LET m == CHOOSE x \in S : \A y \in S : x <= y
         IN  <<m>> \o Ascending(S \ {m})

Reverse(q) == [i \in 1..Len(q) |-> q[Len(q) + 1 - i]]

(***************************************************************************)
(* MoEGate: configuration, construction and parameters.                    *)
(***************************************************************************)
ScoringFuncs == {"softmax", "sigmoid", "tanh"}

TopkMethods == {"greedy", "noaux_tc", "group_limited_greedy"}

RoutedScalingFactors == {1, 2}

\* TextConfig values the gate is built from.
GateConfigs ==
    {[scoring_func |-> sf, num_experts_per_tok |-> k,
      n_routed_experts |-> ng * ExpertsPerGroup, routed_scaling_factor |-> rsf,
      topk_method |-> tm, n_group |-> ng, topk_group |-> tg] :
        sf \in ScoringFuncs, k \in 1..MaxTopK, rsf \in RoutedScalingFactors,
        tm \in TopkMethods, ng \in 1..MaxGroups, tg \in 1..MaxGroups}

\* Hidden states have width 1 here: one number per token.
XVals == {-1, 0, 1}

\* Two loaded gate weight matrices [n_routed_experts, 1], entries in -2..2.
WeightA(n) == [e \in 0..(n - 1) |-> ((3 * e + 3) % 5) - 2]

WeightB(n) == [e \in 0..(n - 1) |-> 2 - ((2 * e) % 5)]

\* Loaded bias-correction vectors (fixed point, scaled by 1000).
BiasZero(n) == [e \in 0..(n - 1) |-> 0]

BiasRamp(n) == [e \in 0..(n - 1) |-> 150 * e]

\* MoEGate.__init__: copies the configuration, no validation.
MoEGateInit(config) ==
    [scoring_func |-> config.scoring_func,
     top_k |-> config.num_experts_per_tok,
     n_routed_experts |-> config.n_routed_experts,
     routed_scaling_factor |-> config.routed_scaling_factor,
     topk_method |-> config.topk_method,
     n_group |-> config.n_group,
     topk_group |-> config.topk_group,
     e_score_correction_bias |->
         IF config.topk_method = "noaux_tc"
         THEN BiasZero(config.n_routed_experts) ELSE None,
     weight |-> [e \in 0..(config.n_routed_experts - 1) |-> 0]]

\* The gate objects: constructed, then their parameters loaded.
Gates ==
    UNION {{[MoEGateInit(c) EXCEPT
                !.weight = w,
                !.e_score_correction_bias = IF c.topk_method = "noaux_tc" THEN b ELSE None] :
               w \in {WeightA(c.n_routed_experts), WeightB(c.n_routed_experts)},
               b \in {BiasZero(c.n_routed_experts), BiasRamp(c.n_routed_experts)}} :
           c \in {c \in GateConfigs : c.topk_group <= c.n_group}}

\* Inputs x of shape [bsz, seq_len, 1].
GateInputs ==
    UNION {{[bsz |-> b, seq_len |-> s, h |-> h] :
               h \in [0..(b - 1) -> [0..(s - 1) -> XVals]]} :
           b \in 1..MaxBatch, s \in 1..MaxSeq}

(***************************************************************************)
(* MoEGate.__call__: projection and score normalisation.                   *)
(***************************************************************************)
\* 100 * exp(g), rounded, for the logits the inputs can produce.
ExpTable(g) ==
    CASE g = -2 -> 14 [] g = -1 -> 37 [] g = 0 -> 100 [] g = 1 -> 272 [] g = 2 -> 739

\* 1000 * sigmoid(g), rounded.
SigmoidTable(g) ==
    CASE g = -2 -> 119 [] g = -1 -> 269 [] g = 0 -> 500 [] g = 1 -> 731 [] g = 2 -> 881

Experts(g) == 0..(g.n_routed_experts - 1)

\* gates = x @ self.weight.T
Project(g, x) ==
    [b \in 0..(x.bsz - 1) |-> [s \in 0..(x.seq_len - 1) |->
        [e \in Experts(g) |-> x.h[b][s] * g.weight[e]]]]

Softmax(row) ==
    LET ex == [e \in DOMAIN row |-> ExpTable(row[e])]
        tot == SumOver(ex, DOMAIN row)
    IN  [e \in DOMAIN row |-> (ex[e] * 1000) \div tot]

Sigmoid(row) == [e \in DOMAIN row |-> SigmoidTable(row[e])]

Normalize(g, gates) ==
    [b \in DOMAIN gates |-> [s \in DOMAIN gates[b] |->
        IF g.scoring_func = "softmax" THEN Softmax(gates[b][s]) ELSE Sigmoid(gates[b][s])]]

(***************************************************************************)
(* mx.argpartition: the order inside each side of the partition is left to *)
(* the implementation, and so is the choice among equal values.            *)
(***************************************************************************)
\* The sets the first k entries of argpartition(vals, kth = k - 1) can be.
LowestSets(vals, k) ==
    {S \in SUBSET (DOMAIN vals) :
        /\ Cardinality(S) = k
        /\ \A i \in S, j \in (DOMAIN vals) \ S : vals[i] <= vals[j]}

\* The sets the last k entries of argpartition(vals, kth = -k) can be.
HighestSets(vals, k) ==
    {S \in SUBSET (DOMAIN vals) :
        /\ Cardinality(S) = k
        /\ \A i \in S, j \in (DOMAIN vals) \ S : vals[i] >= vals[j]}

ArgOrders == {"ascending", "descending"}

\* The selected entries in the order the implementation leaves them.
Arrange(S, order) == IF order = "ascending" THEN Ascending(S) ELSE Reverse(Ascending(S))

(***************************************************************************)
(* MoEGate.__call__: the two selection policies.                           *)
(***************************************************************************)
TokIdx(x) == (0..(x.bsz - 1)) \X (0..(x.seq_len - 1))

\* The size two broadcast dimensions give, -1 when they do not broadcast.
BroadcastDim(a, b) == IF a = b THEN a ELSE IF a = 1 THEN b ELSE IF b = 1 THEN a ELSE -1

GateError(msg, did) == [status |-> "error", error |-> msg, did |-> did]

ScaleWeights(g, w) ==
    [i \in DOMAIN w |-> [j \in DOMAIN w[i] |->
        [l \in DOMAIN w[i][j] |-> w[i][j][l] * g.routed_scaling_factor]]]

GateOk(g, did, groupIdx, masked, inds, picked, d2) ==
    [status |-> "ok", did |-> did, group_idx |-> groupIdx, masked |-> masked,
     inds |-> inds,
     inds_shape |-> <<Cardinality(DOMAIN inds), Cardinality(DOMAIN inds[0]), Len(inds[0][0])>>,
     weights |-> ScaleWeights(g, picked),
     weights_shape |-> <<Cardinality(DOMAIN picked), d2, Len(picked[0][0])>>]

\* scores.max(axis=-1) after the reshape to [bsz, seq_len, n_group, -1]
GreedyGroupScores(row, n_group, epg) ==
    [gi \in 0..(n_group - 1) |-> MaxOf({row[e] : e \in {e \in DOMAIN row : e \div epg = gi}})]

\* The greedy branch: every result the partial selections allow.
GreedyOutcomes(g, x, scores, did) ==
    LET n == g.n_routed_experts
        epg == n \div g.n_group
        gs == [t \in TokIdx(x) |-> GreedyGroupScores(scores[t[1]][t[2]], g.n_group, epg)]
        kz == g.n_group - g.topk_group
        did1 == did \cup {"group_selection"}
    IN  IF n % g.n_group # 0
        THEN {GateError("reshape", did)}
        ELSE UNION {
               LET masked == [b \in 0..(x.bsz - 1) |-> [s \in 0..(x.seq_len - 1) |->
                                 [e \in 0..(n - 1) |->
                                     IF (e \div epg) \in gc[<<b, s>>] THEN 0
                                     ELSE scores[b][s][e]]]]
               IN  IF g.top_k > n
                   THEN {GateError("argpartition kth out of range", did1)}
                   ELSE {LET inds == [b \in 0..(x.bsz - 1) |-> [s \in 0..(x.seq_len - 1) |->
                                         Arrange(sc[<<b, s>>], ord)]]
                             picked == [b \in 0..(x.bsz - 1) |-> [s \in 0..(x.seq_len - 1) |->
                                         [l \in 1..g.top_k |-> masked[b][s][inds[b][s][l]]]]]
                         IN  GateOk(g, did1 \cup {"topk"}, gc, masked, inds, picked, x.seq_len) :
                            sc \in ChoiceFns(TokIdx(x),
                                      [t \in TokIdx(x) |-> HighestSets(masked[t[1]][t[2]], g.top_k)]),
                            ord \in ArgOrders}
               : gc \in ChoiceFns(TokIdx(x), [t \in TokIdx(x) |-> LowestSets(gs[t], kz)])}

\* mx.topk(scores_reshaped, 2, axis=-1).sum(axis=-1) for one group
Top2Sum(vals, members) ==
    MaxOf({vals[a] + vals[b] : <<a, b>> \in {p \in members \X members : p[1] # p[2]}})

\* The noaux_tc branch: every result the partial selections allow.
NoauxOutcomes(g, x, scores, did) ==
    LET n == g.n_routed_experts
        epg == n \div g.n_group
        T == x.bsz * x.seq_len
        \* scores.reshape(bsz * seq_len, -1) + bias
        sfc == [t \in 0..(T - 1) |-> [e \in 0..(n - 1) |->
                   scores[t \div x.seq_len][t % x.seq_len][e] + g.e_score_correction_bias[e]]]
        gs == [t \in 0..(T - 1) |-> [gi \in 0..(g.n_group - 1) |->
                   Top2Sum(sfc[t], {e \in 0..(n - 1) : e \div epg = gi})]]
        kz == g.n_group - g.topk_group
        \* index arrays of shapes (bsz,1,1), (1,seq_len,1) and (bsz*seq_len,k)
        d2 == BroadcastDim(x.seq_len, T)
        did1 == did \cup {"group_selection"}
    IN  IF n % g.n_group # 0 \/ epg < 2
        THEN {GateError("reshape or topk", did)}
        ELSE IF d2 = -1
        THEN {GateError("index arrays do not broadcast", did1)}
        ELSE UNION {
               LET \* scores[batch_idx, seq_idx, group_idx] = 0.0 on the 3-D scores
                   masked == [b \in 0..(x.bsz - 1) |-> [s \in 0..(x.seq_len - 1) |->
                                 [e \in 0..(n - 1) |->
                                     IF \E j \in 0..(d2 - 1) :
                                            /\ (IF x.seq_len = 1 THEN 0 ELSE j) = s
                                            /\ e \in gc[IF T = 1 THEN 0 ELSE j]
                                     THEN 0 ELSE scores[b][s][e]]]]
                   flat == [i \in 0..(T * n - 1) |->
                               masked[(i \div n) \div x.seq_len][(i \div n) % x.seq_len][i % n]]
               IN  IF g.top_k > n
                   THEN {GateError("argpartition kth out of range", did1)}
                   ELSE {LET inds == [b \in 0..(x.bsz - 1) |-> [s \in 0..(x.seq_len - 1) |->
                                         Arrange(sc[<<b, s>>], ord)]]
                             \* mx.take(scores_flat, inds + batch_idx * scores_flat.shape[1])
                             picked == [i \in 0..(x.bsz - 1) |-> [j \in 0..(d2 - 1) |->
                                         [l \in 1..g.top_k |->
                                             flat[inds[i][IF x.seq_len = 1 THEN 0 ELSE j][l]
                                                  + (IF T = 1 THEN 0 ELSE j) * n]]]]
                         IN  GateOk(g, did1 \cup {"topk"}, gc, masked, inds, picked, d2) :
                            sc \in ChoiceFns(TokIdx(x),
                                      [t \in TokIdx(x) |-> HighestSets(masked[t[1]][t[2]], g.top_k)]),
                            ord \in ArgOrders}
               : gc \in ChoiceFns(0..(T - 1), [t \in 0..(T - 1) |-> LowestSets(gs[t], kz)])}

\* MoEGate.__call__: the set of results (returned pairs or raised errors).
MoEGateCall(g, x) ==
    LET gates == Project(g, x)
        did0 == {"projection"}
    IN  IF g.scoring_func \notin {"softmax", "sigmoid"}
        THEN {GateError("Unknown scoring function", did0)}
        ELSE LET scores == Normalize(g, gates)
                 did1 == did0 \cup {"normalization"}
             IN  IF g.topk_method = "greedy" THEN GreedyOutcomes(g, x, scores, did1)
                 ELSE IF g.topk_method = "noaux_tc" THEN NoauxOutcomes(g, x, scores, did1)
                 ELSE {GateError("Unknown topk method", did1)}

NoGateOut == [status |-> "none"]

\* The call gate(x): it returns (inds, scores) or raises.
GateCall ==
    /\ gateOut.status = "none"
    /\ gateOut' \in MoEGateCall(gate, gateX)
    /\ UNCHANGED <<gate, gateX>>

(***************************************************************************)
(* Specification of the expert gate: a constructed gate (parameters        *)
(* loaded) and an input, and the one call gate(x).                         *)
(***************************************************************************)
GateInit ==
    /\ gate \in Gates
    /\ gateX \in GateInputs
    /\ gateOut = NoGateOut
    /\ fusionCfg = None /\ fusionIn = None /\ fusionOut = None
    /\ lm = None /\ cache = None /\ call = None /\ hist = None
    /\ attention = None /\ moe = None /\ weights = None /\ yarn = None /\ cli = None

GateNext == GateCall /\ UNCHANGED <<fusionCfg, fusionIn, fusionOut, lm, cache, call, hist, otherVars>>

SpecGate == GateInit /\ [][GateNext]_vars

(***************************************************************************)
(* Claims about the expert gate.                                           *)
(***************************************************************************)
KnownGate == gate.scoring_func \in {"softmax", "sigmoid"} /\ gate.topk_method \in {"greedy", "noaux_tc"}

GateEpg == gate.n_routed_experts \div gate.n_group

\* top_k <= experts_per_group * topk_group
GateSelectable == gate.top_k <= GateEpg * gate.topk_group

GateCalled == gateOut.status # "none"

\* The normalized scores of the call, before any masking and without the bias.
OriginalScores == Normalize(gate, Project(gate, gateX))

\* C1: for every input [batch, seq, hidden] and both policies the gate returns,
\* per token, exactly top_k distinct expert indices in [0, n_routed_experts) and
\* top_k weights: both outputs have shape [batch, seq, top_k].
C1_GateCardinality ==
    (GateCalled /\ KnownGate /\ GateSelectable) =>
        /\ gateOut.status = "ok"
        /\ gateOut.inds_shape = <<gateX.bsz, gateX.seq_len, gate.top_k>>
        /\ gateOut.weights_shape = <<gateX.bsz, gateX.seq_len, gate.top_k>>
        /\ \A t \in TokIdx(gateX) :
             LET q == gateOut.inds[t[1]][t[2]]
             IN  /\ Len(q) = gate.top_k
                 /\ \A l \in 1..Len(q) : q[l] \in 0..(gate.n_routed_experts - 1)
                 /\ \A l, m \in 1..Len(q) : l # m => q[l] # q[m]

\* The groups whose experts were all set to zero for token t.
ZeroedExperts(t) == {e \in Experts(gate) : gateOut.masked[t[1]][t[2]][e] = 0}

SelectedExperts(t) == {gateOut.inds[t[1]][t[2]][l] : l \in 1..Len(gateOut.inds[t[1]][t[2]])}

\* C2: for both policies, when top_k <= experts_per_group * topk_group, a token's
\* selected experts lie in at most topk_group groups: n_group - topk_group groups
\* are zeroed as whole groups and no expert of a zeroed group is selected.
C2_GroupConstraint ==
    (gateOut.status = "ok" /\ GateSelectable) =>
        \A t \in TokIdx(gateX) :
            /\ Cardinality({e \div GateEpg : e \in SelectedExperts(t)}) <= gate.topk_group
            /\ \A e \in ZeroedExperts(t) :
                 \A f \in Experts(gate) : f \div GateEpg = e \div GateEpg => f \in ZeroedExperts(t)
            /\ Cardinality({e \div GateEpg : e \in ZeroedExperts(t)}) = gate.n_group - gate.topk_group
            /\ SelectedExperts(t) \cap ZeroedExperts(t) = {}

\* C6: an unknown scoring function or selection policy is a fatal error raised
\* before any computation: such a gate performs no projection, no normalization
\* and no group selection before the error.
C6_FailFast ==
    (GateCalled /\ ~KnownGate) =>
        /\ gateOut.status = "error"
        /\ gateOut.did \cap {"projection", "normalization", "group_selection"} = {}

\* C10: under noaux_tc, for every token and returned index e the returned weight is
\* the original normalized score of e for that token, without the bias, times
\* routed_scaling_factor, whatever the batch size and sequence length.
C10_NoauxWeights ==
    (gateOut.status = "ok" /\ gate.topk_method = "noaux_tc" /\ GateSelectable) =>
        /\ gateOut.weights_shape = <<gateX.bsz, gateX.seq_len, gate.top_k>>
        /\ \A t \in TokIdx(gateX) : \A l \in 1..gate.top_k :
             gateOut.weights[t[1]][t[2]][l] =
                 OriginalScores[t[1]][t[2]][gateOut.inds[t[1]][t[2]][l]] * gate.routed_scaling_factor

\* C11: a gate configured with top_k > experts_per_group * topk_group is rejected
\* as a fatal configuration error: a call of such a gate never returns a
\* selection, and so never returns experts of the zeroed groups.
C11_UnselectableRejected ==
    (GateCalled /\ ~GateSelectable) => gateOut.status = "error"

(***************************************************************************)
(* Multimodal fusion (gemma3): inputs.                                     *)
(***************************************************************************)
TokenIds == {0, 1, 2}

\* hidden_size, pad_token_id (may be absent) and image_token_index of the config.
FusionConfigs ==
    {[hidden_size |-> h, pad_token_id |-> p, image_token_index |-> i] :
        h \in {1, 4}, p \in {None, Some(1)}, i \in {0, 2}}

\* language_model.model.embed_tokens: row `id` of the embedding table, width dim.
EmbedTokens(id, dim) == [d \in 0..(dim - 1) |-> 100 + 10 * id + d]

\* The projected image features, flattened to m vectors of width dim (all
\* entries distinct, so that a swap or a repetition is visible).
ImageFeatures(m, dim) == [k \in 0..(m - 1) |-> [d \in 0..(dim - 1) |-> 2 * (10 * (k + 1) + d)]]

\* The validity masks a caller passes: none, all ones, or zero on the padding.
AttentionMasks(ids, pad) ==
    {None,
     [b \in DOMAIN ids |-> [s \in DOMAIN ids[b] |-> 1]],
     [b \in DOMAIN ids |-> [s \in DOMAIN ids[b] |-> IF ids[b][s] = pad THEN 0 ELSE 1]]}

FusionShapes ==
    {sh \in (1..MaxPositions) \X (1..MaxPositions) : sh[1] * sh[2] <= MaxPositions}

\* The arguments of one call: ids of shape [B, S], m feature vectors of width dim.
FusionArgs(ids, B, S, dim, m, am) ==
    [input_ids |-> ids, batch_size |-> B, sequence_length |-> S,
     embed_dim |-> dim, num_features |-> m,
     image_features |-> ImageFeatures(m, dim),
     inputs_embeds |-> [b \in DOMAIN ids |-> [q \in DOMAIN ids[b] |->
                           EmbedTokens(ids[b][q], dim)]],
     attention_mask |-> am]

\* The arguments with input_ids of shape [B, S].
FusionInputsOfShape(cfg, B, S) ==
    UNION {{FusionArgs(ids, B, S, dim, m, am) :
               dim \in 1..MaxEmbedDim, m \in 0..MaxFeatures,
               am \in AttentionMasks(ids,
                        IF cfg.pad_token_id = None THEN 0 ELSE cfg.pad_token_id[1])} :
           ids \in [0..(B - 1) -> [0..(S - 1) -> TokenIds]]}

FusionInputs(cfg) == UNION {FusionInputsOfShape(cfg, sh[1], sh[2]) : sh \in FusionShapes}

(***************************************************************************)
(* masked_scatter and prepare_inputs_for_multimodal.                       *)
(***************************************************************************)
\* hidden_size ** 0.5 for the hidden sizes of the model (perfect squares).
Sqrt(h) == CHOOSE r \in 0..h : r * r = h

\* mx.flatten of a [B, S, D] tensor: a 0-based vector in row-major order.
Flatten3(t, B, S, D) ==
    [i \in 0..(B * S * D - 1) |-> t[i \div (S * D)][(i \div D) % S][i % D]]

\* mx.flatten of the [m, D] features.
Flatten2(t, m, D) == [i \in 0..(m * D - 1) |-> t[i \div D][i % D]]

\* np.where(mask)[0]: the indices of the true entries, ascending.
WherePositions(flatMask) == Ascending({i \in DOMAIN flatMask : flatMask[i]})

\* masked_scatter with the features laid into the image positions right to left.
MaskedScatterReversed(final_embedding, image_mask_expanded, scaled_image_features, B, S, D, m) ==
    LET feats == Flatten2(scaled_image_features, m, D)
        flatE == Flatten3(final_embedding, B, S, D)
        flatM == Flatten3(image_mask_expanded, B, S, D)
        image_positions == WherePositions(flatM)
        np == Len(image_positions)
        nf == m * D
        rank(i) == CHOOSE r \in 1..np : image_positions[r] = i
        out == [i \in DOMAIN flatE |->
                   IF ~flatM[i] THEN flatE[i]
                   ELSE IF nf = np THEN feats[np - rank(i)]
                   ELSE feats[0]]
    IN  IF nf # np /\ nf # 1
        THEN [raised |-> TRUE]
        ELSE [raised |-> FALSE,
              value |-> [b \in 0..(B - 1) |-> [q \in 0..(S - 1) |-> [d \in 0..(D - 1) |->
                            out[(b * S + q) * D + d]]]]]

\* masked_scatter: a [B, S, D] tensor, or an error raised when the assignment
\* final_embedding_flattened[image_positions] = features cannot broadcast.
MaskedScatter(final_embedding, image_mask_expanded, scaled_image_features, B, S, D, m) ==
    LET feats == Flatten2(scaled_image_features, m, D)
        flatE == Flatten3(final_embedding, B, S, D)
        flatM == Flatten3(image_mask_expanded, B, S, D)
        image_positions == WherePositions(flatM)
        np == Len(image_positions)
        nf == m * D
        rank(i) == CHOOSE r \in 1..np : image_positions[r] = i
        out == [i \in DOMAIN flatE |->
                   IF ~flatM[i] THEN flatE[i]
                   ELSE IF nf = np THEN feats[rank(i) - 1]
                   ELSE feats[0]]
    IN  IF nf # np /\ nf # 1
        THEN [raised |-> TRUE]
        ELSE [raised |-> FALSE,
              value |-> [b \in 0..(B - 1) |-> [q \in 0..(S - 1) |-> [d \in 0..(D - 1) |->
                            out[(b * S + q) * D + d]]]]]

\* The three position masks of prepare_inputs_for_multimodal, from the token ids
\* and the two sentinel ids (an absent pad_token_id is 0).
ClassifyPositions(pad_token_id_arg, image_token_index, ids, B, S) ==
    LET pad_token_id == IF pad_token_id_arg # None THEN pad_token_id_arg[1] ELSE 0
    IN  [text_mask |-> [b \in 0..(B - 1) |-> [q \in 0..(S - 1) |->
                          ids[b][q] # image_token_index /\ ids[b][q] # pad_token_id]],
         image_mask |-> [b \in 0..(B - 1) |-> [q \in 0..(S - 1) |-> ids[b][q] = image_token_index]],
         pad_mask |-> [b \in 0..(B - 1) |-> [q \in 0..(S - 1) |-> ids[b][q] = pad_token_id]]]

\* Model.prepare_inputs_for_multimodal
PrepareInputsForMultimodal(hidden_size, pad_token_id_arg, image_token_index, in) ==
    LET B == in.batch_size
        S == in.sequence_length
        D == in.embed_dim
        ids == in.input_ids
        scaled == [k \in DOMAIN in.image_features |-> [d \in 0..(D - 1) |->
                      in.image_features[k][d] \div Sqrt(hidden_size)]]
        zeros == [b \in 0..(B - 1) |-> [q \in 0..(S - 1) |-> [d \in 0..(D - 1) |-> 0]]]
        masks == ClassifyPositions(pad_token_id_arg, image_token_index, ids, B, S)
        text_mask == masks.text_mask
        image_mask == masks.image_mask
        pad_mask == masks.pad_mask
        expand(msk) == [b \in 0..(B - 1) |-> [q \in 0..(S - 1) |-> [d \in 0..(D - 1) |-> msk[b][q]]]]
        where(msk, x, y) == [b \in 0..(B - 1) |-> [q \in 0..(S - 1) |-> [d \in 0..(D - 1) |->
                                IF msk[b][q][d] THEN x[b][q][d] ELSE y[b][q][d]]]]
        final1 == where(expand(text_mask), in.inputs_embeds, zeros)
        final2 == where(expand(pad_mask), zeros, final1)
        final3 == MaskedScatter(final2, expand(image_mask), scaled, B, S, D, in.num_features)
        am == in.attention_mask
    IN  IF final3.raised
        THEN [status |-> "error", error |-> "scatter: shapes do not broadcast"]
        ELSE IF am = None
        THEN [status |-> "error", error |-> "expand_dims of None"]
        ELSE [status |-> "ok",
              final_embedding |-> final3.value,
              final_attention_mask_4d |->
                  [b \in 0..(B - 1) |-> [h \in {0} |-> [i \in 0..(S - 1) |-> [j \in 0..(S - 1) |->
                      am[b][j] * am[b][i]]]]]]

NoFusionOut == [status |-> "none"]

\* The call prepare_inputs_for_multimodal(...) with the config's sentinels.
FusionCall ==
    /\ fusionOut.status = "none"
    /\ fusionOut' = PrepareInputsForMultimodal(fusionCfg.hidden_size, fusionCfg.pad_token_id,
                                                fusionCfg.image_token_index, fusionIn)
    /\ UNCHANGED <<fusionCfg, fusionIn>>

(***************************************************************************)
(* Specification of the fusion: a configuration, the arguments, the call.  *)
(***************************************************************************)
FusionInit ==
    /\ fusionCfg \in FusionConfigs
    /\ fusionIn \in FusionInputs(fusionCfg)
    /\ fusionOut = NoFusionOut
    /\ gate = None /\ gateX = None /\ gateOut = None
    /\ lm = None /\ cache = None /\ call = None /\ hist = None
    /\ attention = None /\ moe = None /\ weights = None /\ yarn = None /\ cli = None

FusionNext == FusionCall /\ UNCHANGED <<gate, gateX, gateOut, lm, cache, call, hist, otherVars>>

SpecFusion == FusionInit /\ [][FusionNext]_vars

(***************************************************************************)
(* Claims about the fusion.                                                *)
(***************************************************************************)
FusionCalled == fusionOut.status # "none"

FusionPad == IF fusionCfg.pad_token_id = None THEN 0 ELSE fusionCfg.pad_token_id[1]

FusionPositions == (0..(fusionIn.batch_size - 1)) \X (0..(fusionIn.sequence_length - 1))

IsImagePosition(t) == fusionIn.input_ids[t[1]][t[2]] = fusionCfg.image_token_index

IsPadPosition(t) == fusionIn.input_ids[t[1]][t[2]] = FusionPad

\* The number of image-token positions before t in left-to-right, batch-major order.
ImageRank(t) ==
    Cardinality({u \in FusionPositions :
        /\ IsImagePosition(u)
        /\ u[1] * fusionIn.sequence_length + u[2] < t[1] * fusionIn.sequence_length + t[2]})

NumImagePositions == Cardinality({u \in FusionPositions : IsImagePosition(u)})

\* v is the feature vector f scaled by 1 / sqrt(hidden_size).
IsScaledFeature(v, f) ==
    \A d \in 0..(fusionIn.embed_dim - 1) :
        v[d] >= 0 /\ v[d] * v[d] * fusionCfg.hidden_size = f[d] * f[d]

FusionExact ==
    /\ fusionOut.status = "ok"
    /\ \A t \in FusionPositions :
        LET v == fusionOut.final_embedding[t[1]][t[2]]
        IN  /\ IsImagePosition(t) => IsScaledFeature(v, fusionIn.image_features[ImageRank(t)])
            /\ IsPadPosition(t) => \A d \in 0..(fusionIn.embed_dim - 1) : v[d] = 0
            /\ (~IsImagePosition(t) /\ ~IsPadPosition(t)) => v = fusionIn.inputs_embeds[t[1]][t[2]]

C4_FusionMismatchFatal ==
    (FusionCalled /\ NumImagePositions # fusionIn.num_features) => fusionOut.status = "error"

\* The masks the call computed from its arguments.
FusionMasks ==
    ClassifyPositions(fusionCfg.pad_token_id, fusionCfg.image_token_index, fusionIn.input_ids,
                      fusionIn.batch_size, fusionIn.sequence_length)

\* C13: for every sentinel configuration the code accepts, the fusion puts every
\* position of the token-id sequence into exactly one of the categories
\* image-token, pad-token and other-text: the three masks are pairwise disjoint
\* and cover every position.
C13_ThreeDisjointMasks ==
    FusionCalled =>
        \A t \in FusionPositions :
            Cardinality({m \in {"text_mask", "image_mask", "pad_mask"} :
                            FusionMasks[m][t[1]][t[2]]}) = 1

(***************************************************************************)
(* The decoder stack: configuration and construction of the layers.        *)
(***************************************************************************)
AttnTypes == {"DeepseekV2Attention", "LlamaAttention"}

\* config.rope_scaling: absent, or a dictionary.
RopeScalings ==
    {None,
     Some([type |-> "linear", factor |-> 2, mscale_all_dim |-> 0]),
     Some([type |-> "yarn", factor |-> 2, mscale_all_dim |-> 0]),
     Some([type |-> "yarn", factor |-> 2, mscale_all_dim |-> 1])}

\* The feed-forward fields are the dense ones here; MoETextConfigs varies them.
TextConfigs ==
    {[attn_type |-> a, rope_scaling |-> r, num_hidden_layers |-> n,
      n_routed_experts |-> None, first_k_dense_replace |-> 0, moe_layer_freq |-> 1] :
        a \in AttnTypes, r \in RopeScalings, n \in 1..MaxLayers}

\* Configurations that vary the feed-forward selection: the expert count (or
\* none), the number of leading dense layers and the MoE layer frequency.
MoETextConfigs ==
    {[attn_type |-> "DeepseekV2Attention", rope_scaling |-> None, num_hidden_layers |-> n,
      n_routed_experts |-> e, first_k_dense_replace |-> k, moe_layer_freq |-> f] :
        n \in 1..MaxMoELayers, e \in {None, Some(4)}, k \in 0..MaxMoELayers, f \in 1..MaxMoELayers}

\* DeepseekV2Attention.__init__: self.rope is assigned only when rope_scaling is
\* absent or its mscale_all_dim is non-zero.
DeepseekV2AttentionInit(config) ==
    [attn_type |-> "DeepseekV2Attention",
     rope |-> IF config.rope_scaling = None THEN "RoPE"
              ELSE IF config.rope_scaling[1].mscale_all_dim # 0
                   THEN "DeepseekV2YarnRotaryEmbedding"
                   ELSE "unset"]

\* LlamaAttention.__init__: always an nn.RoPE, with a linear scale when configured.
LlamaAttentionInit(config) ==
    [attn_type |-> "LlamaAttention", rope |-> "RoPE"]

\* A feed-forward selection that forgets the leading dense layers.
FeedForwardIgnoringDenseReplace(config, layer_idx) ==
    IF config.n_routed_experts # None /\ layer_idx % config.moe_layer_freq = 0
    THEN "DeepseekV2MoE"
    ELSE "DeepseekV2MLP"

\* DeepseekV2DecoderLayer.__init__: the class of self.mlp.
FeedForwardInit(config, layer_idx) ==
    IF /\ config.n_routed_experts # None
       /\ layer_idx >= config.first_k_dense_replace
       /\ layer_idx % config.moe_layer_freq = 0
    THEN "DeepseekV2MoE"
    ELSE "DeepseekV2MLP"

\* DeepseekV2DecoderLayer.__init__: the attention variant of the layer (its
\* fields attn_type and rope) and the feed-forward variant (mlp).
DecoderLayerInit(config, layer_idx) ==
    LET self_attn == IF config.attn_type = "DeepseekV2Attention"
                     THEN DeepseekV2AttentionInit(config)
                     ELSE LlamaAttentionInit(config)
    IN  [attn_type |-> self_attn.attn_type, rope |-> self_attn.rope,
         mlp |-> FeedForwardInit(config, layer_idx)]

\* DeepseekV2Model.__init__: the list of layers, indexed from 0.
DeepseekV2ModelInit(config) ==
    [config |-> config,
     layers |-> [idx \in 0..(config.num_hidden_layers - 1) |-> DecoderLayerInit(config, idx)]]

(***************************************************************************)
(* The key/value cache entry and the rotary encoders.                      *)
(***************************************************************************)
\* A fresh cache entry.
EmptyCacheEntry == [keys |-> <<>>, values |-> <<>>, offset |-> 0]

\* KVCache.update_and_fetch: append along the sequence axis, advance offset.
UpdateAndFetch(c, new_keys, new_values) ==
    [keys |-> c.keys \o new_keys,
     values |-> c.values \o new_values,
     offset |-> c.offset + Len(new_keys)]

\* The L new tokens of a call, token j being number base + j of the sequence;
\* pos is the position a vector was rotated at, -1 while it is not rotated.
NewVectors(base, L) == [j \in 1..L |-> [tok |-> base + j - 1, pos |-> -1]]

\* A rotary encoder that is not given the offset: every call starts at position 0.
RopeIgnoringOffset(x, offset) == [j \in 1..Len(x) |-> [x[j] EXCEPT !.pos = j - 1]]

\* nn.RoPE / mx.fast.rope: the j-th vector along the sequence axis (from 0)
\* is rotated at position offset + j.
Rope(x, offset) == [j \in 1..Len(x) |-> [x[j] EXCEPT !.pos = offset + j - 1]]

AttnRaised(events) ==
    [raised |-> TRUE, cache |-> EmptyCacheEntry, queries |-> <<>>, keys |-> <<>>,
     events |-> events]

\* DeepseekV2Attention.__call__ with the cache updated first: the keys are stored
\* before they are rotated and the offset is read after the update.
DeepseekV2AttentionCallUpdateFirst(attn, x, has_cache, c) ==
    IF attn.rope = "unset"
    THEN AttnRaised(<<"AttributeError: rope">>)
    ELSE IF has_cache
    THEN LET c2 == UpdateAndFetch(c, x, x)
             q_pe == Rope(x, c2.offset)
         IN  [raised |-> FALSE, cache |-> c2, queries |-> q_pe, keys |-> c2.keys,
              events |-> <<"update_and_fetch", "read offset", "rope queries",
                           "read offset", "rope keys">>]
    ELSE LET q_pe == Rope(x, 0)
             k_pe == Rope(x, 0)
         IN  [raised |-> FALSE, cache |-> c, queries |-> q_pe, keys |-> k_pe,
              events |-> <<"rope queries", "rope keys">>]

\* DeepseekV2Attention.__call__ on L new tokens; c is the layer's cache entry
\* when has_cache. Returns the rotated queries, the keys attended over and the
\* cache entry afterwards, with the order of the cache accesses.
DeepseekV2AttentionCall(attn, x, has_cache, c) ==
    IF attn.rope = "unset"
    THEN AttnRaised(<<"AttributeError: rope">>)
    ELSE IF has_cache
    THEN LET q_pe == Rope(x, c.offset)
             k_pe == Rope(x, c.offset)
             c2 == UpdateAndFetch(c, k_pe, x)
         IN  [raised |-> FALSE, cache |-> c2, queries |-> q_pe, keys |-> c2.keys,
              events |-> <<"read offset", "rope queries", "read offset", "rope keys",
                           "update_and_fetch">>]
    ELSE LET q_pe == Rope(x, 0)
             k_pe == Rope(x, 0)
         IN  [raised |-> FALSE, cache |-> c, queries |-> q_pe, keys |-> k_pe,
              events |-> <<"rope queries", "rope keys">>]

\* LlamaAttention.__call__ that rotates but never stores the new keys and values.
LlamaAttentionCallNoUpdate(attn, x, has_cache, c) ==
    IF has_cache
    THEN LET queries == Rope(x, c.offset)
             keys == Rope(x, c.offset)
         IN  [raised |-> FALSE, cache |-> c, queries |-> queries, keys |-> c.keys \o keys,
              events |-> <<"read offset", "rope queries", "read offset", "rope keys">>]
    ELSE LET queries == Rope(x, 0)
             keys == Rope(x, 0)
         IN  [raised |-> FALSE, cache |-> c, queries |-> queries, keys |-> keys,
              events |-> <<"rope queries", "rope keys">>]

\* LlamaAttention.__call__
LlamaAttentionCall(attn, x, has_cache, c) ==
    IF has_cache
    THEN LET queries == Rope(x, c.offset)
             keys == Rope(x, c.offset)
             c2 == UpdateAndFetch(c, keys, x)
         IN  [raised |-> FALSE, cache |-> c2, queries |-> queries, keys |-> c2.keys,
              events |-> <<"read offset", "rope queries", "read offset", "rope keys",
                           "update_and_fetch">>]
    ELSE LET queries == Rope(x, 0)
             keys == Rope(x, 0)
         IN  [raised |-> FALSE, cache |-> c, queries |-> queries, keys |-> keys,
              events |-> <<"rope queries", "rope keys">>]

\* DeepseekV2DecoderLayer.__call__: the attention of the layer, then self.mlp (the
\* feed-forward block touches neither the cache nor the positions).
DecoderLayerCall(layer, x, has_cache, c) ==
    LET r == IF layer.attn_type = "DeepseekV2Attention"
             THEN DeepseekV2AttentionCall(layer, x, has_cache, c)
             ELSE LlamaAttentionCall(layer, x, has_cache, c)
    IN  [raised |-> r.raised, cache |-> r.cache, queries |-> r.queries, keys |-> r.keys,
         events |-> r.events, mlp |-> IF r.raised THEN "" ELSE layer.mlp]

(***************************************************************************)
(* Forward calls: gemma3 Model.__call__, LanguageModel.__call__ and the    *)
(* loop of DeepseekV2Model.__call__ over the layers.                       *)
(***************************************************************************)
NumLayers == lm.config.num_hidden_layers

\* The cache lists a caller may hold: none, or a list of fresh entries.
CacheArgs ==
    {[present |-> FALSE, entries |-> <<>>]} \cup
    {[present |-> TRUE, entries |-> [i \in 1..n |-> EmptyCacheEntry]] : n \in 0..MaxLayers}

\* zip(self.layers, cache): the number of layers the loop runs.
ZipLen == IF cache.present THEN Min2(NumLayers, Len(cache.entries)) ELSE NumLayers

\* create_attention_mask(h, cache): a causal mask over offset + L positions.
CreateAttentionMask(L) ==
    LET offset == IF cache.present /\ Len(cache.entries) > 0 THEN cache.entries[1].offset ELSE 0
    IN  [causal |-> TRUE, rows |-> L, cols |-> offset + L]

\* A mask a caller of LanguageModel.__call__ may pass: all positions visible.
CallerMask(L) == [b \in {0} |-> [h \in {0} |-> [i \in 0..(L - 1) |-> [j \in 0..(L - 1) |-> 1]]]]

IdleCall ==
    [pc |-> "idle", entry |-> "", multimodal |-> FALSE, L |-> 0, base |-> 0,
     mask |-> [source |-> "", value |-> <<>>], i |-> 0, log |-> <<>>]

\* DeepseekV2Model.__call__ up to its loop: the embeddings, the cache list
\* and the mask (built here when the argument is None).
DecoderBegin(entry, multimodal, L, maskArg) ==
    [pc |-> "layers", entry |-> entry, multimodal |-> multimodal, L |-> L,
     base |-> hist.total,
     mask |-> IF maskArg = None
              THEN [source |-> "create_attention_mask", value |-> CreateAttentionMask(L)]
              ELSE [source |-> "argument", value |-> maskArg[1]],
     i |-> 0, log |-> <<>>]

\* LanguageModel.__call__(inputs, inputs_embeds, mask, cache)
LanguageModelCall(entry, multimodal, L, maskArg) == DecoderBegin(entry, multimodal, L, maskArg)

FailedCall(entry, multimodal, L) ==
    [IdleCall EXCEPT !.pc = "failed", !.entry = entry, !.multimodal = multimodal, !.L = L]

\* The fusion arguments of a gemma3 call on one row of L tokens: an image token
\* followed by text, one feature vector (or one too many), a mask or none.
ModelFusionInputs(L) ==
    LET ids == [b \in {0} |-> [q \in 0..(L - 1) |->
                   IF q = 0 THEN fusionCfg.image_token_index ELSE 1]]
    IN  {FusionArgs(ids, 1, L, MaxEmbedDim, m, am) :
            m \in {1, 2}, am \in {None, [b \in {0} |-> [q \in 0..(L - 1) |-> 1]]}}

CanBegin == call.pc \in {"idle", "done", "failed"} /\ hist.started < MaxCalls

\* gemma3 Model.__call__ with pixel_values: get_input_embeddings runs the
\* fusion, then the language model is called with inputs, cache and
\* inputs_embeds only.
ModelCallWithPixels ==
    /\ CanBegin
    /\ \E L \in 1..MaxLen : \E in \in ModelFusionInputs(L) :
        LET out == PrepareInputsForMultimodal(fusionCfg.hidden_size, fusionCfg.pad_token_id,
                                              fusionCfg.image_token_index, in)
        IN  /\ fusionIn' = in
            /\ fusionOut' = out
            /\ call' = IF out.status = "error"
                       THEN FailedCall("Model", TRUE, L)
                       ELSE LanguageModelCall("Model", TRUE, L, None)
    /\ hist' = [hist EXCEPT !.started = @ + 1]
    /\ UNCHANGED <<lm, cache, fusionCfg>>

\* gemma3 Model.__call__ with pixel_values = None: text embeddings only.
ModelCallTextOnly ==
    /\ CanBegin
    /\ \E L \in 1..MaxLen : call' = LanguageModelCall("Model", FALSE, L, None)
    /\ fusionIn' = None
    /\ fusionOut' = NoFusionOut
    /\ hist' = [hist EXCEPT !.started = @ + 1]
    /\ UNCHANGED <<lm, cache, fusionCfg>>

\* LanguageModel.__call__ called directly, with or without a mask.
LanguageCall ==
    /\ CanBegin
    /\ \E L \in 1..MaxLen : \E m \in {None, Some(CallerMask(L))} :
        call' = LanguageModelCall("LanguageModel", FALSE, L, m)
    /\ fusionIn' = None
    /\ fusionOut' = NoFusionOut
    /\ hist' = [hist EXCEPT !.started = @ + 1]
    /\ UNCHANGED <<lm, cache, fusionCfg>>

\* One iteration of `for layer, c in zip(self.layers, cache)`.
LayerStep ==
    /\ call.pc = "layers"
    /\ call.i < ZipLen
    /\ LET c == IF cache.present THEN cache.entries[call.i + 1] ELSE EmptyCacheEntry
           r == DecoderLayerCall(lm.layers[call.i], NewVectors(call.base, call.L), cache.present, c)
           rec == [layer |-> call.i, cached |-> cache.present, events |-> r.events,
                   queries |-> r.queries, keys |-> r.keys, mask_source |-> call.mask.source,
                   mlp |-> r.mlp]
       IN  IF r.raised
           THEN /\ call' = [call EXCEPT !.pc = "failed", !.log = Append(@, rec)]
                /\ UNCHANGED cache
           ELSE /\ call' = [call EXCEPT !.i = @ + 1, !.log = Append(@, rec)]
                /\ cache' = IF cache.present
                            THEN [cache EXCEPT !.entries[call.i + 1] = r.cache]
                            ELSE cache
    /\ UNCHANGED <<lm, hist, fusionCfg, fusionIn, fusionOut>>

\* The loop is over: self.norm(h) is returned.
CallEnd ==
    /\ call.pc = "layers"
    /\ call.i = ZipLen
    /\ call' = [call EXCEPT !.pc = "done"]
    /\ hist' = [hist EXCEPT !.completed = @ + 1, !.total = @ + call.L]
    /\ UNCHANGED <<lm, cache, fusionCfg, fusionIn, fusionOut>>

(***************************************************************************)
(* Specification of the forward calls: a constructed model, a cache list   *)
(* held by the caller, and up to MaxCalls forward calls on it.             *)
(***************************************************************************)
ModelInit ==
    /\ lm \in {DeepseekV2ModelInit(c) : c \in TextConfigs}
    /\ cache \in CacheArgs
    /\ call = IdleCall
    /\ hist = [started |-> 0, completed |-> 0, total |-> 0]
    /\ fusionCfg = [hidden_size |-> 4, pad_token_id |-> None, image_token_index |-> 2]
    /\ fusionIn = None
    /\ fusionOut = NoFusionOut
    /\ gate = None /\ gateX = None /\ gateOut = None
    /\ attention = None /\ moe = None /\ weights = None /\ yarn = None /\ cli = None

ModelNext ==
    \/ ModelCallWithPixels /\ UNCHANGED <<gate, gateX, gateOut, otherVars>>
    \/ ModelCallTextOnly /\ UNCHANGED <<gate, gateX, gateOut, otherVars>>
    \/ LanguageCall /\ UNCHANGED <<gate, gateX, gateOut, otherVars>>
    \/ LayerStep /\ UNCHANGED <<gate, gateX, gateOut, otherVars>>
    \/ CallEnd /\ UNCHANGED <<gate, gateX, gateOut, otherVars>>

SpecModel == ModelInit /\ [][ModelNext]_vars

(***************************************************************************)
(* Claims about the forward calls and the cache.                           *)
(***************************************************************************)
\* C5: in a multimodal forward call the 4-D mask built by the fusion is the mask
\* the decoder stack uses for every layer; the stack builds no causal mask of its own.
C5_FusionMaskUsed ==
    (call.pc \in {"layers", "done"} /\ call.multimodal) =>
        /\ call.mask.source = "argument"
        /\ call.mask.value = fusionOut.final_attention_mask_4d
        /\ \A k \in 1..Len(call.log) : call.log[k].mask_source = "argument"

\* The cache entries that belong to a layer.
LayerEntries == IF cache.present THEN 1..ZipLen ELSE {}

C7_Lengths ==
    call.pc # "layers" =>
        \A i \in LayerEntries :
            /\ cache.entries[i].offset = hist.total
            /\ Len(cache.entries[i].keys) = hist.total
            /\ Len(cache.entries[i].values) = hist.total

C7_NeverDecrease ==
    \A i \in DOMAIN cache.entries :
        /\ cache'.entries[i].offset >= cache.entries[i].offset
        /\ Len(cache'.entries[i].keys) >= Len(cache.entries[i].keys)
        /\ Len(cache'.entries[i].values) >= Len(cache.entries[i].values)

FirstIndex(events, what) == CHOOSE n \in 1..Len(events) : events[n] = what /\ \A m \in 1..(n - 1) : events[m] # what

\* C9: in an attention call with a cache entry the offset is read before
\* update_and_fetch, the keys passed to it are rotary-encoded, and
\* update_and_fetch runs exactly once per layer's entry per forward call.
C9_OffsetThenUpdate ==
    /\ \A k \in 1..Len(call.log) :
         LET e == call.log[k]
         IN  (e.cached /\ e.events # <<"AttributeError: rope">>) =>
                /\ Cardinality({n \in 1..Len(e.events) : e.events[n] = "update_and_fetch"}) = 1
                /\ \A n \in 1..Len(e.events) :
                     e.events[n] \in {"read offset", "rope queries", "rope keys"} =>
                         n < FirstIndex(e.events, "update_and_fetch")
                /\ \E n \in 1..Len(e.events) : e.events[n] = "read offset"
                /\ \A j \in 1..Len(e.keys) : e.keys[j].pos # -1
                /\ cache.entries[e.layer + 1].offset = call.base + call.L
    /\ \A k, m \in 1..Len(call.log) : k # m => call.log[k].layer # call.log[m].layer
    /\ (call.pc = "layers" /\ cache.present) =>
          \A i \in LayerEntries : i > call.i => cache.entries[i].offset = call.base
    /\ call.pc = "done" => {call.log[k].layer : k \in 1..Len(call.log)} = 0..(ZipLen - 1)

\* A second call done on two cached layers of the latent attention.
C9_Witness ==
    /\ call.pc = "done"
    /\ cache.present
    /\ hist.completed = 2
    /\ Len(call.log) = 2
    /\ lm.config.attn_type = "DeepseekV2Attention"
    /\ \A k \in 1..2 : call.log[k].events[Len(call.log[k].events)] = "update_and_fetch"

\* C18: in each DeepseekV2Model forward call every one of the num_hidden_layers
\* layers is applied exactly once, in increasing index order, with the cache entry
\* of its own index and the same mask, whatever cache argument was passed (None, or
\* a list of any length).
C18_EveryLayerOnce ==
    call.pc = "done" =>
        /\ Len(call.log) = NumLayers
        /\ \A k \in 1..Len(call.log) :
             /\ call.log[k].layer = k - 1
             /\ call.log[k].cached = cache.present
             /\ call.log[k].mask_source = call.mask.source

\* C19: after construction a DeepseekV2Attention has a rotary encoder for every
\* rope_scaling configuration (absent, with a non-zero mscale_all_dim, with
\* mscale_all_dim zero or missing), and no forward call fails for want of it.
C19_RopeAlwaysDefined ==
    /\ \A i \in DOMAIN lm.layers :
         lm.layers[i].attn_type = "DeepseekV2Attention" => lm.layers[i].rope # "unset"
    /\ \A k \in 1..Len(call.log) : call.log[k].events # <<"AttributeError: rope">>

(***************************************************************************)
(* Specification of the feed-forward selection: a model built from a       *)
(* configuration that varies the MoE fields, and forward calls on it.      *)
(***************************************************************************)
LayersInit ==
    /\ lm \in {DeepseekV2ModelInit(c) : c \in MoETextConfigs}
    /\ cache \in {[present |-> FALSE, entries |-> <<>>],
                  [present |-> TRUE, entries |-> [i \in 1..MaxMoELayers |-> EmptyCacheEntry]]}
    /\ call = IdleCall
    /\ hist = [started |-> 0, completed |-> 0, total |-> 0]
    /\ fusionCfg = [hidden_size |-> 4, pad_token_id |-> None, image_token_index |-> 2]
    /\ fusionIn = None
    /\ fusionOut = NoFusionOut
    /\ gate = None /\ gateX = None /\ gateOut = None
    /\ attention = None /\ moe = None /\ weights = None /\ yarn = None /\ cli = None

SpecLayers == LayersInit /\ [][ModelNext]_vars

\* The feed-forward variant the configuration prescribes for layer i.
PrescribedFeedForward(i) ==
    IF /\ lm.config.n_routed_experts # None
       /\ i >= lm.config.first_k_dense_replace
       /\ i % lm.config.moe_layer_freq = 0
    THEN "DeepseekV2MoE"
    ELSE "DeepseekV2MLP"

\* C14: layer i uses the MoE feed-forward iff n_routed_experts is configured,
\* i >= first_k_dense_replace and i mod moe_layer_freq = 0, and the dense MLP
\* otherwise; every layer below first_k_dense_replace is dense; the variant chosen
\* at construction is the one every later forward call uses.
C14_FeedForwardSelection ==
    /\ \A i \in DOMAIN lm.layers :
         /\ lm.layers[i].mlp = PrescribedFeedForward(i)
         /\ i < lm.config.first_k_dense_replace => lm.layers[i].mlp = "DeepseekV2MLP"
    /\ \A k \in 1..Len(call.log) :
         call.log[k].mlp = PrescribedFeedForward(call.log[k].layer)

\* A second forward call done on three layers: two dense ones (one below
\* first_k_dense_replace, one off the frequency) and an MoE one.
C14_Witness ==
    /\ call.pc = "done"
    /\ hist.completed = 2
    /\ lm.config.first_k_dense_replace = 1
    /\ lm.config.moe_layer_freq = 2
    /\ Len(call.log) = 3
    /\ call.log[1].mlp = "DeepseekV2MLP"
    /\ call.log[2].mlp = "DeepseekV2MLP"
    /\ call.log[3].mlp = "DeepseekV2MoE"

(***************************************************************************)
(* Construction and use of the attention modules: the vision Attention     *)
(* (llava_next/vision.py) and the grouped-query LlamaAttention.            *)
(***************************************************************************)
\* A linear layer, by its input and output widths.
Linear(input_dims, output_dims) == [input_dims |-> input_dims, output_dims |-> output_dims]

\* Constructor arguments: the feature width, the head count and, for the
\* grouped-query attention, a key/value head count dividing the head count.
AttentionArgs ==
    {[kind |-> "Attention", dims |-> d, num_heads |-> h, num_key_value_heads |-> h] :
        d \in 1..MaxDims, h \in 1..MaxHeads} \cup
    {a \in {[kind |-> "LlamaAttention", dims |-> d, num_heads |-> h, num_key_value_heads |-> kv] :
                d \in 1..MaxDims, h \in 1..MaxHeads, kv \in 1..MaxHeads} :
        a.num_heads % a.num_key_value_heads = 0}

\* Attention.__init__ of the vision tower: raises when dims % num_heads != 0.
VisionAttentionInit(dims, num_heads) ==
    IF dims % num_heads # 0
    THEN [raised |-> TRUE, error |-> "ValueError"]
    ELSE [raised |-> FALSE,
          num_heads |-> num_heads,
          n_kv_heads |-> num_heads,
          head_dim |-> dims \div num_heads,
          q_proj |-> Linear(dims, dims),
          k_proj |-> Linear(dims, dims),
          v_proj |-> Linear(dims, dims),
          o_proj |-> Linear(dims, dims)]

\* LlamaAttention.__init__: head_dim = hidden_size // n_heads, divisibility is not
\* checked; head_dim**-0.5 raises when head_dim is 0.
LlamaAttentionProjections(hidden_size, n_heads, n_kv_heads) ==
    LET head_dim == hidden_size \div n_heads
    IN  IF head_dim = 0
        THEN [raised |-> TRUE, error |-> "ZeroDivisionError"]
        ELSE
        [raised |-> FALSE,
         num_heads |-> n_heads,
         n_kv_heads |-> n_kv_heads,
         head_dim |-> head_dim,
         q_proj |-> Linear(hidden_size, n_heads * head_dim),
         k_proj |-> Linear(hidden_size, n_kv_heads * head_dim),
         v_proj |-> Linear(hidden_size, n_kv_heads * head_dim),
         o_proj |-> Linear(n_heads * head_dim, hidden_size)]

\* x.reshape(B, L, heads, -1): the last dimension, or -1 when the width does not divide.
ReshapeHeads(width, heads) == IF width % heads = 0 THEN width \div heads ELSE -1

\* __call__ of either attention on x of shape [B, L, D]: the shape of the result,
\* or the error a projection or a reshape raises.
AttentionForward(a, B, L, D) ==
    LET q == ReshapeHeads(a.q_proj.output_dims, a.num_heads)
        k == ReshapeHeads(a.k_proj.output_dims, a.n_kv_heads)
        v == ReshapeHeads(a.v_proj.output_dims, a.n_kv_heads)
    IN  IF D # a.q_proj.input_dims
        THEN [raised |-> TRUE, error |-> "matmul shapes"]
        ELSE IF q = -1 \/ k = -1 \/ v = -1
        THEN [raised |-> TRUE, error |-> "reshape"]
        ELSE IF q # k \/ a.num_heads * v # a.o_proj.input_dims
        THEN [raised |-> TRUE, error |-> "attention shapes"]
        ELSE [raised |-> FALSE, shape |-> <<B, L, a.o_proj.output_dims>>]

\* The module is built from its arguments.
AttentionConstruct ==
    /\ attention.pc = "new"
    /\ LET a == attention.args
           obj == IF a.kind = "Attention"
                  THEN VisionAttentionInit(a.dims, a.num_heads)
                  ELSE LlamaAttentionProjections(a.dims, a.num_heads, a.num_key_value_heads)
       IN  attention' = [attention EXCEPT
                            !.pc = IF obj.raised THEN "construction error" ELSE "built",
                            !.module = obj]
    /\ UNCHANGED <<moe, weights, yarn, cli>>

\* A built module is called on hidden states of its feature width.
AttentionCall ==
    /\ attention.pc = "built"
    /\ \E B \in 1..MaxBatch, L \in 1..MaxSeq :
         LET out == AttentionForward(attention.module, B, L, attention.args.dims)
         IN  attention' = [attention EXCEPT
                              !.pc = IF out.raised THEN "call error" ELSE "called",
                              !.out = out]
    /\ UNCHANGED <<moe, weights, yarn, cli>>

\* The TextConfig a grouped-query attention layer is built from.
AttentionTextConfig(a) ==
    [attn_type |-> a.kind, hidden_size |-> a.dims,
     num_attention_heads |-> a.num_heads, num_key_value_heads |-> a.num_key_value_heads,
     qk_nope_head_dim |-> 0, qk_rope_head_dim |-> 0, v_head_dim |-> 0]

\* LanguageModel.head_dim: a pair for latent attention, otherwise
\* hidden_size // num_key_value_heads.
LanguageModelHeadDim(config) ==
    IF config.attn_type = "DeepseekV2Attention"
    THEN <<config.qk_nope_head_dim + config.qk_rope_head_dim, config.v_head_dim>>
    ELSE config.hidden_size \div config.num_key_value_heads

\* The head_dim property of the language model owning a built LlamaAttention is read.
HeadDimRead ==
    /\ attention.pc \in {"built", "called"}
    /\ attention.args.kind = "LlamaAttention"
    /\ attention.reported = None
    /\ attention' = [attention EXCEPT
                         !.reported = Some(LanguageModelHeadDim(AttentionTextConfig(attention.args)))]
    /\ UNCHANGED <<moe, weights, yarn, cli>>

AttentionInit ==
    /\ attention \in {[pc |-> "new", args |-> a, module |-> None, out |-> None,
                        reported |-> None] : a \in AttentionArgs}
    /\ gate = None /\ gateX = None /\ gateOut = None
    /\ fusionCfg = None /\ fusionIn = None /\ fusionOut = None
    /\ lm = None /\ cache = None /\ call = None /\ hist = None
    /\ moe = None /\ weights = None /\ yarn = None /\ cli = None

AttentionNext ==
    \/ AttentionConstruct /\ UNCHANGED <<gateVars, fusionVars, modelVars>>
    \/ AttentionCall /\ UNCHANGED <<gateVars, fusionVars, modelVars>>
    \/ HeadDimRead /\ UNCHANGED <<gateVars, fusionVars, modelVars>>

SpecAttention == AttentionInit /\ [][AttentionNext]_vars

\* C12: a feature width that the head count does not divide is a fatal error of
\* the construction of the attention module, for the vision Attention and for
\* LlamaAttention alike: such a module is never built and never called.
C12_DivisibilityAtConstruction ==
    (attention.pc # "new" /\ attention.args.dims % attention.args.num_heads # 0) =>
        attention.pc = "construction error"

\* C22: for grouped-query attention the per-head dimension LanguageModel.head_dim
\* reports equals the per-head dimension LlamaAttention uses for its keys and
\* values, hidden_size div num_attention_heads, whatever num_key_value_heads is.
C22_HeadDimAgrees ==
    (attention.args.kind = "LlamaAttention" /\ attention.reported # None) =>
        /\ attention.reported = Some(attention.module.head_dim)
        /\ attention.reported = Some(attention.args.dims \div attention.args.num_heads)

(***************************************************************************)
(* DeepseekV2MoE: the gate, the routed experts (SwitchGLU), the weighted   *)
(* sum over the selected experts and the shared experts.                   *)
(***************************************************************************)
\* TextConfig values an MoE layer is built from (known scoring and policy).
MoEConfigs ==
    {[scoring_func |-> sf, num_experts_per_tok |-> k,
      n_routed_experts |-> ng * ExpertsPerGroup, routed_scaling_factor |-> rsf,
      topk_method |-> tm, n_group |-> ng, topk_group |-> ng,
      n_shared_experts |-> ns] :
        sf \in {"softmax", "sigmoid"}, k \in 1..(MaxTopK - 1), rsf \in RoutedScalingFactors,
        tm \in {"greedy", "noaux_tc"}, ng \in 1..MaxGroups, ns \in {None, Some(1)}}

\* Routed expert e applied to one token (hidden width 1).
ExpertOut(e, xv) == (e + 2) * xv

\* The shared-experts MLP applied to one token.
SharedOut(xv) == 5 * xv

\* DeepseekV2MoE.__init__: the gate (with loaded weights) and the shared experts.
DeepseekV2MoEInit(config) ==
    [gate |-> [MoEGateInit(config) EXCEPT !.weight = WeightA(config.n_routed_experts)],
     n_shared_experts |-> config.n_shared_experts,
     out |-> None]

\* DeepseekV2MoE.__call__ after the gate returned g: y = switch_mlp(x, inds) of
\* shape [B, S, k, 1], times scores[..., None] (broadcast), summed over the
\* selected experts, plus shared_experts(x) when configured.
MoEForward(n_shared_experts, x, g) ==
    IF g.status = "error"
    THEN [raised |-> TRUE]
    ELSE LET B == x.bsz
             S == x.seq_len
             d2 == g.weights_shape[2]
             k == g.weights_shape[3]
             S2 == BroadcastDim(S, d2)
             y == [b \in 0..(B - 1) |-> [s \in 0..(S - 1) |-> [l \in 1..k |->
                      ExpertOut(g.inds[b][s][l], x.h[b][s])]]]
             weighted == [b \in 0..(B - 1) |-> [s \in 0..(S2 - 1) |-> [l \in 1..k |->
                             y[b][IF S = 1 THEN 0 ELSE s][l] * g.weights[b][IF d2 = 1 THEN 0 ELSE s][l]]]]
             summed == [b \in 0..(B - 1) |-> [s \in 0..(S2 - 1) |->
                           SumOver(weighted[b][s], 1..k)]]
         IN  IF S2 = -1
             THEN [raised |-> TRUE]
             ELSE [raised |-> FALSE,
                   shape |-> <<B, S2, 1>>,
                   y |-> [b \in 0..(B - 1) |-> [s \in 0..(S2 - 1) |->
                             IF n_shared_experts # None
                             THEN summed[b][s] + 1000 * SharedOut(x.h[b][IF S = 1 THEN 0 ELSE s])
                             ELSE summed[b][s]]]]

\* The call moe(x): the gate is called, then the experts.
MoECall ==
    /\ moe.out = None
    /\ \E g \in MoEGateCall(gate, gateX) :
         /\ gateOut' = g
         /\ moe' = [moe EXCEPT !.out = MoEForward(moe.n_shared_experts, gateX, g)]
    /\ UNCHANGED <<gate, gateX, attention, weights, yarn, cli>>

MoEInit ==
    /\ moe \in {[n_shared_experts |-> c.n_shared_experts, config |-> c, out |-> None] : c \in MoEConfigs}
    /\ gate = DeepseekV2MoEInit(moe.config).gate
    /\ gateX \in GateInputs
    /\ gateOut = NoGateOut
    /\ fusionCfg = None /\ fusionIn = None /\ fusionOut = None
    /\ lm = None /\ cache = None /\ call = None /\ hist = None
    /\ attention = None /\ weights = None /\ yarn = None /\ cli = None

MoENext == MoECall /\ UNCHANGED <<fusionVars, modelVars>>

SpecMoE == MoEInit /\ [][MoENext]_vars

\* C15: for each token the MoE output is the sum over the token's selected
\* experts of the expert's output times the expert's gate weight, plus the
\* shared-experts output when n_shared_experts is configured; the output has one
\* vector per token.
C15_MoEOutput ==
    (moe.out # None /\ gateOut.status = "ok") =>
        /\ ~moe.out.raised
        /\ moe.out.shape = <<gateX.bsz, gateX.seq_len, 1>>
        /\ \A t \in TokIdx(gateX) :
             moe.out.y[t[1]][t[2]] =
                 SumOver([l \in 1..gate.top_k |->
                             ExpertOut(gateOut.inds[t[1]][t[2]][l], gateX.h[t[1]][t[2]])
                                 * gateOut.weights[t[1]][t[2]][l]], 1..gate.top_k)
                 + (IF moe.n_shared_experts # None
                    THEN 1000 * SharedOut(gateX.h[t[1]][t[2]]) ELSE 0)

(***************************************************************************)
(* LanguageModel.sanitize: the per-expert weights of a checkpoint are      *)
(* stacked into the switch_mlp entries.                                    *)
(***************************************************************************)
\* Keys of a weights dictionary, as <<family, layer, projection, kind, expert>>:
\*   <<"experts", l, m, k, e>>      language_model.model.layers.l.mlp.experts.e.m.k
\*   <<"switch_mlp", l, m, k, -1>>  language_model.model.layers.l.mlp.switch_mlp.m.k
\*   <<"other", l, m, k, -1>>       any other key
ExpertKey(l, m, k, e) == <<"experts", l, m, k, e>>

SwitchKey(l, m, k) == <<"switch_mlp", l, m, k, -1>>

Projections == <<"gate_proj", "down_proj", "up_proj">>

Kinds == <<"weight", "scales", "biases">>

ProjectionIndex(m) == IF \E i \in 1..3 : Projections[i] = m THEN CHOOSE i \in 1..3 : Projections[i] = m ELSE 0

KindIndex(k) == CHOOSE i \in 1..3 : Kinds[i] = k

\* A stored tensor: its content is told apart by a number that depends on the key.
Tensor(key) ==
    [stacked |-> FALSE,
     data |-> <<((key[2] * 3 + ProjectionIndex(key[3])) * 3 + KindIndex(key[4])) * 10 + key[5] + 1>>]

\* mx.stack of the list taken in the opposite order.
StackReversed(to_join) ==
    [stacked |-> TRUE, data |-> [i \in 1..Len(to_join) |-> to_join[Len(to_join) + 1 - i].data[1]]]

\* mx.stack(to_join): the tensors along a new leading axis, in list order.
Stack(to_join) == [stacked |-> TRUE, data |-> [i \in 1..Len(to_join) |-> to_join[i].data[1]]]

\* The (layer, projection, kind) groups a checkpoint may hold expert weights for.
CkptGroups == (0..(MaxCkptLayers - 1)) \X {"gate_proj", "down_proj", "up_proj"} \X {"weight", "scales", "biases"}

\* The keys of a checkpoint: up to two groups with the weights of `stored` experts
\* each, possibly one group that lacks its last expert, possibly another key.
CkptKeySets(stored) ==
    {UNION {{ExpertKey(g[1], g[2], g[3], e) : e \in 0..(stored - 1)} : g \in G}
        \cup (IF short THEN {ExpertKey(0, "up_proj", "biases", e) : e \in 0..(stored - 2)} ELSE {})
        \cup (IF other THEN {<<"other", 0, "input_layernorm", "weight", -1>>} ELSE {}) :
     G \in {H \in SUBSET CkptGroups : Cardinality(H) <= 2 /\ <<0, "up_proj", "biases">> \notin H},
     short \in BOOLEAN, other \in BOOLEAN}

Checkpoints(stored) == {[key \in K |-> Tensor(key)] : K \in CkptKeySets(stored)}

\* Python's dict.pop of a set of keys.
Without(w, keys) == [key \in (DOMAIN w) \ keys |-> w[key]]

\* The loops of sanitize over the groups still to visit (in the order of the
\* loops), on the dictionary w: a KeyError when an expert's key is missing.
RECURSIVE SanitizeGroups(_, _, _)
SanitizeGroups(todo, w, n_routed_experts) ==
    IF todo = <<>>
    THEN [raised |-> FALSE, weights |-> w]
    ELSE LET g == Head(todo)
             keys == [e \in 0..(n_routed_experts - 1) |-> ExpertKey(g[1], g[2], g[3], e)]
         IN  IF ExpertKey(g[1], g[2], g[3], 0) \notin DOMAIN w
             THEN SanitizeGroups(Tail(todo), w, n_routed_experts)
             ELSE IF \E e \in 0..(n_routed_experts - 1) : keys[e] \notin DOMAIN w
             THEN [raised |-> TRUE, error |-> "KeyError"]
             ELSE LET to_join == [i \in 1..n_routed_experts |-> w[keys[i - 1]]]
                      popped == Without(w, {keys[e] : e \in 0..(n_routed_experts - 1)})
                      joined == (SwitchKey(g[1], g[2], g[3]) :> Stack(to_join)) @@ popped
                  IN  SanitizeGroups(Tail(todo), joined, n_routed_experts)

\* for l in range(num_hidden_layers): for m in projections: for k in kinds
RECURSIVE LoopOrder(_, _)
LoopOrder(l, num_hidden_layers) ==
    IF l >= num_hidden_layers THEN <<>>
    ELSE [i \in 1..9 |-> <<l, Projections[((i - 1) \div 3) + 1], Kinds[((i - 1) % 3) + 1]>>]
            \o LoopOrder(l + 1, num_hidden_layers)

\* LanguageModel.sanitize(weights)
LanguageModelSanitize(config, w) ==
    SanitizeGroups(LoopOrder(0, config.num_hidden_layers), w, config.n_routed_experts)

\* The call sanitize(weights) on a loaded checkpoint.
SanitizeCall ==
    /\ weights.pc = "loaded"
    /\ weights' = [weights EXCEPT !.pc = "sanitized",
                                  !.out = LanguageModelSanitize(weights.config, weights.loaded)]
    /\ UNCHANGED <<attention, moe, yarn, cli>>

SanitizeInit ==
    /\ weights \in UNION {{[pc |-> "loaded", model |-> "LanguageModel",
                            config |-> [num_hidden_layers |-> nl, n_routed_experts |-> n],
                            loaded |-> w, out |-> None] :
                              w \in Checkpoints(n)} :
                          nl \in 1..MaxCkptLayers, n \in 1..MaxExperts}
    /\ gate = None /\ gateX = None /\ gateOut = None
    /\ fusionCfg = None /\ fusionIn = None /\ fusionOut = None
    /\ lm = None /\ cache = None /\ call = None /\ hist = None
    /\ attention = None /\ moe = None /\ yarn = None /\ cli = None

SanitizeNext == SanitizeCall /\ UNCHANGED <<gateVars, fusionVars, modelVars>>

SpecSanitize == SanitizeInit /\ [][SanitizeNext]_vars

\* C16: for every layer, projection and kind whose expert-0 key is present,
\* sanitize leaves a switch_mlp entry whose slice e is the tensor that was stored
\* under expert e's key, for every e in [0, n_routed_experts), and removes all
\* those per-expert keys.
C16_StackOrder ==
    (weights.pc = "sanitized" /\ ~weights.out.raised) =>
        \A l \in 0..(weights.config.num_hidden_layers - 1) :
          \A m \in {"gate_proj", "down_proj", "up_proj"} :
            \A k \in {"weight", "scales", "biases"} :
              ExpertKey(l, m, k, 0) \in DOMAIN weights.loaded =>
                /\ SwitchKey(l, m, k) \in DOMAIN weights.out.weights
                /\ Len(weights.out.weights[SwitchKey(l, m, k)].data) = weights.config.n_routed_experts
                /\ \A e \in 0..(weights.config.n_routed_experts - 1) :
                     /\ weights.out.weights[SwitchKey(l, m, k)].data[e + 1]
                            = weights.loaded[ExpertKey(l, m, k, e)].data[1]
                     /\ ExpertKey(l, m, k, e) \notin DOMAIN weights.out.weights

\* Two groups of three experts each, on different layers, were stacked.
C16_Witness ==
    /\ weights.pc = "sanitized"
    /\ ~weights.out.raised
    /\ weights.config.n_routed_experts = 3
    /\ weights.config.num_hidden_layers = 2
    /\ SwitchKey(0, "gate_proj", "weight") \in DOMAIN weights.out.weights
    /\ SwitchKey(1, "down_proj", "scales") \in DOMAIN weights.out.weights
    /\ <<"other", 0, "input_layernorm", "weight", -1>> \in DOMAIN weights.out.weights

(***************************************************************************)
(* DeepseekV2YarnRotaryEmbedding: the attenuation factor and the blended   *)
(* frequency table. Real numbers are exact fractions [num, den]; the       *)
(* attenuation is in thousandths.                                          *)
(***************************************************************************)
RECURSIVE Gcd(_, _)
Gcd(a, b) == IF b = 0 THEN a ELSE Gcd(b, a % b)

Abs(a) == IF a < 0 THEN -a ELSE a

\* The fraction num/den in lowest terms with a positive denominator.
Fraction(num, den) ==
    LET g == Gcd(Abs(num), Abs(den))
        sgn == IF den < 0 THEN -1 ELSE 1
    IN  [num |-> sgn * (num \div g), den |-> sgn * (den \div g)]

\* scaling_factor values: 1/2, 1 and 2.
ScalingFactors == {Fraction(1, 2), Fraction(1, 1), Fraction(2, 1)}

\* 1000 * math.log(scale) for the scaling factors above 1.
LogTable(scale) == IF scale = Fraction(2, 1) THEN 693 ELSE 0

\* yarn_get_mscale(scale, mscale), in thousandths.
YarnGetMscale(scale, mscale) ==
    IF scale.num <= scale.den
    THEN 1000
    ELSE (mscale * LogTable(scale)) \div 10 + 1000

\* yarn_find_correction_range: low and high from the floor and the ceiling of the
\* two correction dimensions.
YarnFindCorrectionRange(low_floor, high_ceil, dim) ==
    [low |-> Max2(low_floor, 0), high |-> Min2(high_ceil, dim - 1)]

\* yarn_linear_ramp_mask(min_val, max_val, dim): entry i is
\* clip((i - min_val) / (max_val - min_val), 0, 1), max_val being raised by 0.001
\* when it equals min_val.
YarnLinearRampMask(min_val, max_val, dim) ==
    [i \in 0..(dim - 1) |->
        LET r == IF min_val = max_val
                 THEN Fraction((i - min_val) * 1000, 1)
                 ELSE Fraction(i - min_val, max_val - min_val)
        IN  IF r.num <= 0 THEN Fraction(0, 1)
            ELSE IF r.num >= r.den THEN Fraction(1, 1)
            ELSE r]

\* base ** (2 i / dim) for the table index i, with base = 4 ** (dim / 2).
FreqExtra(i) == 4 ^ i

\* Constructor arguments: the rotary width, the scaling factor, the two
\* attenuation parameters and the correction dimensions (beta_fast >= beta_slow,
\* so the floor of the first is at most the ceiling of the second).
YarnArgs ==
    {a \in {[dim |-> d, scaling_factor |-> sf, mscale |-> m, mscale_all_dim |-> ma,
              low_floor |-> lo, high_ceil |-> hi] :
                d \in {d \in 2..MaxRopeDim : d % 2 = 0}, sf \in ScalingFactors,
                m \in {1, 2}, ma \in {0, 1},
                lo \in -1..(MaxRopeDim - 1), hi \in 0..MaxRopeDim} :
        a.low_floor <= a.high_ceil}

\* DeepseekV2YarnRotaryEmbedding.__init__
YarnInit(a) ==
    LET sf == a.scaling_factor
        range == YarnFindCorrectionRange(a.low_floor, a.high_ceil, a.dim)
        ramp == YarnLinearRampMask(range.low, range.high, a.dim \div 2)
    IN  [mscale |-> (YarnGetMscale(sf, a.mscale) * 1000) \div YarnGetMscale(sf, a.mscale_all_dim),
         \* (freq_inter * freq_extra) / (freq_inter * freq_mask + freq_extra * (1 - freq_mask))
         \* with freq_inter = scaling_factor * freq_extra and freq_mask = 1 - ramp
         freqs |-> [i \in 0..((a.dim \div 2) - 1) |->
                      LET mask == Fraction(ramp[i].den - ramp[i].num, ramp[i].den)
                      IN  Fraction(sf.num * FreqExtra(i) * mask.den,
                                   sf.num * mask.num + sf.den * (mask.den - mask.num))]]

\* DeepseekV2YarnRotaryEmbedding.__call__(x, offset): x is rescaled when mscale
\* is not 1.0, then rotated with the frequency table (x in thousandths).
YarnCall(y, x, offset) ==
    [x |-> IF y.mscale # 1000 THEN (y.mscale * x) \div 1000 ELSE x,
     freqs |-> y.freqs,
     offset |-> offset]

\* The unscaled rotary path on the same input: no rescaling, the extrapolated
\* frequencies base ** (2 i / dim).
PlainRope(dim, x, offset) ==
    [x |-> x,
     freqs |-> [i \in 0..((dim \div 2) - 1) |-> Fraction(FreqExtra(i), 1)],
     offset |-> offset]

\* The encoder is built from its arguments.
YarnConstruct ==
    /\ yarn.pc = "new"
    /\ yarn' = [yarn EXCEPT !.pc = "built", !.rope = YarnInit(yarn.args)]
    /\ UNCHANGED <<attention, moe, weights, cli>>

\* The encoder is applied to an input at an offset.
YarnApply ==
    /\ yarn.pc = "built"
    /\ \E x \in {-1000, 1000, 2000}, offset \in 0..1 :
         yarn' = [yarn EXCEPT !.pc = "called",
                              !.input = [x |-> x, offset |-> offset],
                              !.out = YarnCall(yarn.rope, x, offset)]
    /\ UNCHANGED <<attention, moe, weights, cli>>

YarnSpecInit ==
    /\ yarn \in {[pc |-> "new", args |-> a, rope |-> None, input |-> None, out |-> None] : a \in YarnArgs}
    /\ gate = None /\ gateX = None /\ gateOut = None
    /\ fusionCfg = None /\ fusionIn = None /\ fusionOut = None
    /\ lm = None /\ cache = None /\ call = None /\ hist = None
    /\ attention = None /\ moe = None /\ weights = None /\ cli = None

YarnNext ==
    \/ YarnConstruct /\ UNCHANGED <<gateVars, fusionVars, modelVars>>
    \/ YarnApply /\ UNCHANGED <<gateVars, fusionVars, modelVars>>

SpecYarn == YarnSpecInit /\ [][YarnNext]_vars

\* C17: with scaling_factor <= 1 the YaRN encoder is the unscaled rotary path: its
\* mscale is exactly 1.0 and every entry of its frequency table is the plain
\* extrapolated value, for every scaling_factor <= 1 and every correction range.
C17_YarnUnscaled ==
    (yarn.pc # "new" /\ yarn.args.scaling_factor.num <= yarn.args.scaling_factor.den) =>
        /\ yarn.rope.mscale = 1000
        /\ \A i \in DOMAIN yarn.rope.freqs : yarn.rope.freqs[i] = Fraction(FreqExtra(i), 1)
        /\ yarn.pc = "called" =>
              yarn.out = PlainRope(yarn.args.dim, yarn.input.x, yarn.input.offset)

(***************************************************************************)
(* VisionModel.sanitize (llava_next/vision.py): the layout of the patch    *)
(* embedding weights. An array is its shape and, for each position of the  *)
(* shape, the axis that sits there: "O" out_channels, "I" in_channels,     *)
(* "H" and "W" the kernel.                                                 *)
(***************************************************************************)
TorchLayout == <<"O", "I", "H", "W">>

MlxLayout == <<"O", "H", "W", "I">>

AxisSize(axis, out_channels, in_channels, kernel) ==
    CASE axis = "O" -> out_channels
      [] axis = "I" -> in_channels
      [] OTHER -> kernel

\* A convolution weight with a square kernel, stored in the given layout.
ConvWeight(layout, out_channels, in_channels, kernel) ==
    [shape |-> [i \in 1..4 |-> AxisSize(layout[i], out_channels, in_channels, kernel)],
     axes |-> layout]

\* v.transpose(0, 2, 3, 1)
Transpose0231(v) ==
    [shape |-> <<v.shape[1], v.shape[3], v.shape[4], v.shape[2]>>,
     axes |-> <<v.axes[1], v.axes[3], v.axes[4], v.axes[2]>>]

\* check_array_shape(arr)
CheckArrayShape(arr) ==
    IF Len(arr.shape) # 4
    THEN FALSE
    ELSE LET out_channels == arr.shape[1]
             kH == arr.shape[2]
             KW == arr.shape[3]
         IN  (out_channels >= kH) /\ (out_channels >= KW) /\ (kH = KW)

\* The keys of a vision checkpoint and the substrings sanitize looks for.
PositionIdsKey == "vision_model.embeddings.position_ids"

PatchEmbeddingKey == "vision_model.embeddings.patch_embedding.weight"

LayerNormKey == "vision_model.post_layernorm.weight"

Contains(key, sub) ==
    \/ key = PositionIdsKey /\ sub = "position_ids"
    \/ key = PatchEmbeddingKey /\ sub = "patch_embedding.weight"

\* Vision checkpoints: a patch embedding weight in either layout, possibly the
\* position ids and another weight.
VisionCheckpoints ==
    {[key \in {PatchEmbeddingKey} \cup extra |->
         IF key = PatchEmbeddingKey THEN ConvWeight(layout, o, i, k)
         ELSE IF key = PositionIdsKey THEN [shape |-> <<1, 2>>, axes |-> <<"B", "P">>]
         ELSE [shape |-> <<o>>, axes |-> <<"O">>]] :
      layout \in {TorchLayout, MlxLayout}, o \in 1..MaxChannels, i \in 1..MaxKernel,
      k \in 1..MaxKernel, extra \in SUBSET {PositionIdsKey, LayerNormKey}}

\* VisionModel.sanitize(weights)
VisionModelSanitize(w) ==
    LET kept == {k \in DOMAIN w : ~Contains(k, "position_ids")}
    IN  [k \in kept |->
            IF Contains(k, "patch_embedding.weight")
            THEN IF CheckArrayShape(w[k]) THEN w[k] ELSE Transpose0231(w[k])
            ELSE w[k]]

\* sanitize is applied to the loaded weights.
VisionSanitizeCall ==
    /\ weights.pc = "loaded"
    /\ weights' = [weights EXCEPT !.pc = "sanitized", !.out = VisionModelSanitize(weights.loaded)]
    /\ UNCHANGED <<attention, moe, yarn, cli>>

\* sanitize is applied to what it returned.
VisionSanitizeAgain ==
    /\ weights.pc = "sanitized"
    /\ weights' = [weights EXCEPT !.pc = "sanitized twice", !.again = VisionModelSanitize(weights.out)]
    /\ UNCHANGED <<attention, moe, yarn, cli>>

VisionSanitizeInit ==
    /\ weights \in {[pc |-> "loaded", model |-> "VisionModel", loaded |-> w,
                     out |-> None, again |-> None] : w \in VisionCheckpoints}
    /\ gate = None /\ gateX = None /\ gateOut = None
    /\ fusionCfg = None /\ fusionIn = None /\ fusionOut = None
    /\ lm = None /\ cache = None /\ call = None /\ hist = None
    /\ attention = None /\ moe = None /\ yarn = None /\ cli = None

VisionSanitizeNext ==
    \/ VisionSanitizeCall /\ UNCHANGED <<gateVars, fusionVars, modelVars>>
    \/ VisionSanitizeAgain /\ UNCHANGED <<gateVars, fusionVars, modelVars>>

SpecVisionSanitize == VisionSanitizeInit /\ [][VisionSanitizeNext]_vars

\* C20: VisionModel.sanitize returns every patch_embedding.weight in MLX layout
\* [out_channels, kH, kW, in_channels]: a PyTorch-layout tensor is transposed for
\* every in_channels and kernel size, an MLX-layout tensor is left unchanged (so
\* sanitizing twice equals sanitizing once), keys containing position_ids are
\* dropped and all other keys are returned unchanged.
C20_PatchEmbeddingLayout ==
    weights.pc # "loaded" =>
        /\ \A k \in DOMAIN weights.loaded :
             IF Contains(k, "position_ids") THEN k \notin DOMAIN weights.out
             ELSE /\ k \in DOMAIN weights.out
                  /\ IF Contains(k, "patch_embedding.weight")
                     THEN /\ weights.out[k].axes = MlxLayout
                          /\ weights.loaded[k].axes = MlxLayout => weights.out[k] = weights.loaded[k]
                     ELSE weights.out[k] = weights.loaded[k]
        /\ DOMAIN weights.out \subseteq DOMAIN weights.loaded
        /\ weights.pc = "sanitized twice" => weights.again = weights.out

(***************************************************************************)
(* generate.py: the command line.  main parses the arguments, builds the   *)
(* prompt with apply_chat_template and either generates once or runs the   *)
(* --chat loop, one templated prompt and one streamed answer per turn.     *)
(* apply_chat_template, generate and stream_generate are calls into other  *)
(* modules: the model records the arguments main passes to them.           *)
(***************************************************************************)
MaxImages == 2
MaxTurns == 2

\* What parse_arguments can return for the options main reads: --image and
\* --audio are None or a list of one or more strings (nargs="+"), --resize-shape
\* is None or a list of one or more integers.
CliArgs ==
    {[image |-> im, audio |-> au, chat |-> ch, system |-> sy, resize_shape |-> rs] :
        im \in {None} \cup {Some([i \in 1..n |-> "image"]) : n \in 1..MaxImages},
        au \in {None, Some(<<"audio">>)},
        ch \in BOOLEAN,
        sy \in {None, Some("system")},
        rs \in {None} \cup {Some([i \in 1..n |-> 224]) : n \in 1..3}}

\* Python's len(): a TypeError on None, the length of a list otherwise.
PyLen(v) ==
    IF v = None THEN [raised |-> TRUE, error |-> "TypeError"]
    ELSE [raised |-> FALSE, value |-> Len(v[1])]

\* num_images = len(args.image) if args.image is not None else 0
SingleShotNumImages(args) ==
    IF args.image # None THEN PyLen(args.image) ELSE [raised |-> FALSE, value |-> 0]

\* num_images=len(args.image), the argument of the chat loop's apply_chat_template.
ChatLoopNumImages(args) == PyLen(args.image)

\* num_audios = 1 if args.audio is not None else 0
NumAudios(args) == IF args.audio # None THEN 1 ELSE 0

\* The resize_shape entry of kwargs, or the ValueError of a list of the wrong length.
ResizeKwargs(args) ==
    IF args.resize_shape = None THEN [raised |-> FALSE, value |-> None]
    ELSE LET rs == args.resize_shape[1]
         IN  IF Len(rs) \notin {1, 2}
             THEN [raised |-> TRUE, error |-> "ValueError"]
             ELSE [raised |-> FALSE,
                   value |-> Some(IF Len(rs) = 1 THEN <<rs[1], rs[1]>> ELSE rs)]

\* main up to the choice of the mode: the single-shot prompt is templated (in
\* both modes), then kwargs is built.
CliPrepare ==
    /\ cli.pc = "start"
    /\ LET n == SingleShotNumImages(cli.args)
           k == ResizeKwargs(cli.args)
           t == [mode |-> "single", num_images |-> n.value,
                 num_audios |-> Some(NumAudios(cli.args))]
       IN  cli' = IF n.raised
                  THEN [cli EXCEPT !.pc = "error", !.error = Some(n.error)]
                  ELSE IF k.raised
                  THEN [cli EXCEPT !.pc = "error", !.error = Some(k.error),
                                   !.templates = Append(@, t)]
                  ELSE [cli EXCEPT !.pc = IF cli.args.chat THEN "chat" ELSE "generate",
                                   !.templates = Append(@, t),
                                   !.kwargs = k.value,
                                   !.chat = IF cli.args.chat /\ cli.args.system # None
                                            THEN <<"system">> ELSE <<>>]
    /\ UNCHANGED <<attention, moe, weights, yarn>>

\* The single-shot path: generate is called once with the prepared prompt.
CliGenerate ==
    /\ cli.pc = "generate"
    /\ cli' = [cli EXCEPT !.pc = "done", !.generated = @ + 1]
    /\ UNCHANGED <<attention, moe, weights, yarn>>

\* One turn of the chat loop on a non-empty line of input: the message is
\* appended, the prompt is templated, the answer is streamed and appended.
CliChatTurn ==
    /\ cli.pc = "chat"
    /\ cli.turns < MaxTurns
    /\ LET n == ChatLoopNumImages(cli.args)
       IN  cli' = IF n.raised
                  THEN [cli EXCEPT !.pc = "error", !.error = Some(n.error),
                                   !.chat = Append(@, "user")]
                  ELSE [cli EXCEPT !.turns = @ + 1,
                                   !.templates = Append(@, [mode |-> "chat",
                                                            num_images |-> n.value,
                                                            num_audios |-> None]),
                                   !.generated = @ + 1,
                                   !.chat = @ \o <<"user", "assistant">>]
    /\ UNCHANGED <<attention, moe, weights, yarn>>

\* An empty line of input ends the chat loop.
CliChatEnd ==
    /\ cli.pc = "chat"
    /\ cli' = [cli EXCEPT !.pc = "done"]
    /\ UNCHANGED <<attention, moe, weights, yarn>>

CliInit ==
    /\ cli \in {[pc |-> "start", args |-> a, kwargs |-> None, chat |-> <<>>,
                 templates |-> <<>>, generated |-> 0, turns |-> 0, error |-> None] :
                    a \in CliArgs}
    /\ gate = None /\ gateX = None /\ gateOut = None
    /\ fusionCfg = None /\ fusionIn = None /\ fusionOut = None
    /\ lm = None /\ cache = None /\ call = None /\ hist = None
    /\ attention = None /\ moe = None /\ weights = None /\ yarn = None

CliNext ==
    \/ CliPrepare /\ UNCHANGED <<gateVars, fusionVars, modelVars>>
    \/ CliGenerate /\ UNCHANGED <<gateVars, fusionVars, modelVars>>
    \/ CliChatTurn /\ UNCHANGED <<gateVars, fusionVars, modelVars>>
    \/ CliChatEnd /\ UNCHANGED <<gateVars, fusionVars, modelVars>>

SpecCli == CliInit /\ [][CliNext]_vars

\* C21: when no --image argument is given, main takes the number of images to be
\* 0 in every mode: the single-shot path and every turn of the --chat loop build
\* the prompt with num_images = 0, and the run does not fail on the missing images.
C21_NoImageMeansZero ==
    cli.args.image = None =>
        /\ cli.error # Some("TypeError")
        /\ \A i \in 1..Len(cli.templates) : cli.templates[i].num_images = 0
        /\ (cli.pc = "done" /\ cli.args.chat) => Len(cli.templates) = 1 + cli.turns

====
